---- MODULE Spec2Model ----
(***************************************************************************)
(* Model of visualize.py: one subscriber thread per configured topic       *)
(* (SubscriberCallback.callback), the frame annotation step (draw_defect),  *)
(* the optional persistence step (save_images), the bounded per-topic      *)
(* queues (queue_publish) and the display loop of main that polls them.    *)
(***************************************************************************)
EXTENDS Integers, Sequences, FiniteSets, TLC

(* ---------------------------------------------------------------------- *)
(* Bounds of the model                                                      *)
(* ---------------------------------------------------------------------- *)
\* burst workload: the first topic delivers up to MaxBurst well-formed
\* messages and every other topic up to MaxOther
MaxBurst == 12
MaxOther == 1
\* draw workload: every topic delivers up to MaxDraw messages whose defects,
\* tensor and display_info lists have up to MaxList entries
MaxDraw == 1
MaxList == 2
\* live workload: the first topic delivers up to MaxLive well-formed
\* messages and every other topic up to MaxOther
MaxLive == 3

\* mixed workload: the first topic delivers up to MaxMixed messages of any
\* kind and every other topic up to MaxOther well-formed ones
MaxMixed == 2

(* ---------------------------------------------------------------------- *)
(* Program constants                                                        *)
(* ---------------------------------------------------------------------- *)
\* queue.Queue(maxsize=15) of SubscriberCallback.msg_frame_queue
MsgFrameQueueMaxSize == 15
\* queue.Queue(maxsize=10) of main's queueDict
QueueDictMaxSize == 10
\* width of the border copyMakeBorder adds on each side
BorderWidth == 5

good_color == <<0, 255, 0>>
bad_color == <<0, 0, 255>>

\* Python's None, and the test `x is None`
None == [none |-> TRUE]
IsNone(x) == "none" \in DOMAIN x

(* ---------------------------------------------------------------------- *)
(* Frames (numpy arrays) and what cv2 does to them                          *)
(* ---------------------------------------------------------------------- *)
\* kind "array": an h x w x c image; "flat": the 1-D uint8 buffer that
\* np.frombuffer returned; "none": Python None (imdecode found no image)
\* decoded: the pixels are those of the image the message carried
Array(h, w, c) ==
    [kind |-> "array", h |-> h, w |-> w, c |-> c, ops |-> <<>>, decoded |-> TRUE]
Flat(n) ==
    [kind |-> "flat", h |-> n, w |-> 1, c |-> 1, ops |-> <<>>, decoded |-> FALSE]
NoneFrame ==
    [kind |-> "none", h |-> 0, w |-> 0, c |-> 0, ops |-> <<>>, decoded |-> FALSE]

\* str() of the small non-negative integers used as label ids / defect types
Str(n) ==
    CASE n = 0 -> "0" [] n = 1 -> "1" [] n = 2 -> "2" [] n = 3 -> "3"
      [] n = 4 -> "4" [] n = 5 -> "5" [] n = 6 -> "6" [] n = 7 -> "7"
      [] n = 8 -> "8" [] n = 9 -> "9" [] OTHER -> "n"

\* the state of draw_defect while it runs: exc is "" or the exception that
\* left it, errors counts the logger.error / logger.exception calls
Running(frame) == [exc |-> "", frame |-> frame, errors |-> 0]
Raise(st, name) == [st EXCEPT !.exc = name]

\* cv2.rectangle / cv2.putText / cv2.copyMakeBorder need an image
Draw(st, op) ==
    IF st.exc # "" THEN st
    ELSE IF st.frame.kind = "none" THEN Raise(st, "cv2.error")
    ELSE [st EXCEPT !.frame.ops = Append(@, op)]

rectangle(st, tl, br, color) ==
    Draw(st, [op |-> "rectangle", a |-> tl, b |-> br, text |-> <<>>, color |-> color])

putText(st, text, pos, color) ==
    Draw(st, [op |-> "putText", a |-> pos, b |-> pos, text |-> text, color |-> color])

copyMakeBorder(st, color) ==
    IF st.exc # "" THEN st
    ELSE IF st.frame.kind = "none" THEN Raise(st, "cv2.error")
    ELSE [st EXCEPT !.frame.h = @ + 2 * BorderWidth,
                    !.frame.w = @ + 2 * BorderWidth,
                    !.frame.kind = "array",
                    !.frame.ops = Append(@, [op |-> "border", a |-> <<0, 0>>,
                                             b |-> <<0, 0>>, text |-> <<>>,
                                             color |-> color])]

(* ---------------------------------------------------------------------- *)
(* draw_defect, lines 111-129: the decode step                              *)
(* ---------------------------------------------------------------------- *)
\* cv2.imdecode(buf, 1): an image for a valid container; for bytes the codec
\* rejects it either raises cv2.error (cvRaises) or returns None
imdecode(blob, cvRaises) ==
    IF blob.kind = "encoded" THEN Running(Array(blob.h, blob.w, 3))
    ELSE IF cvRaises
    \* except cv2.error: logged, frame stays the buffer of np.frombuffer
    THEN [exc |-> "", frame |-> Flat(blob.len), errors |-> 1]
    ELSE Running(NoneFrame)

\* both keys required: `'encoding_type' in results and 'encoding_level' in results`
EncodingDeclaredBoth(results) ==
    "encoding_type" \in DOMAIN results /\ "encoding_level" \in DOMAIN results

\* `'encoding_type' and 'encoding_level' in results`
EncodingDeclared(results) == "encoding_level" \in DOMAIN results

Decode(results, blob, cvRaises) ==
    \* None['height'], np.frombuffer(None)
    IF IsNone(results) \/ IsNone(blob)
    THEN Raise(Running(NoneFrame), "TypeError")
    ELSE IF ~ ({"height", "width", "channels"} \subseteq DOMAIN results)
    THEN Raise(Running(NoneFrame), "KeyError")
    ELSE IF EncodingDeclared(results)
    THEN IF "encoding_type" \notin DOMAIN results
         THEN Raise(Running(NoneFrame), "KeyError")
         ELSE imdecode(blob, cvRaises)
    ELSE IF blob.len = results.height * results.width * results.channels
         THEN Running(Array(results.height, results.width, results.channels))
         ELSE Raise(Running(Flat(blob.len)), "ValueError")

(* ---------------------------------------------------------------------- *)
(* draw_defect, lines 131-159: the gva_meta regions                         *)
(* ---------------------------------------------------------------------- *)
\* one `l` of d['tensor']; acc = [st, c] carries the label offset c
GvaLabel(acc, l, x1, y1, stream_label) ==
    IF acc.st.exc # "" THEN acc
    ELSE IF "label_id" \notin DOMAIN l
    THEN [acc EXCEPT !.st = Raise(@, "KeyError")]
    ELSE IF l.label_id.ty = "none" THEN acc
    ELSE LET pos == <<x1, y1 - acc.c>>
             key == Str(l.label_id.v)
         IN  IF ~ IsNone(stream_label) /\ key \in DOMAIN stream_label
             THEN [st |-> putText(acc.st, <<stream_label[key]>>, pos, bad_color),
                   c |-> acc.c + 10]
             ELSE [st |-> [acc.st EXCEPT !.errors = @ + 1], c |-> acc.c + 10]

RECURSIVE GvaTensor(_, _, _, _, _, _)
GvaTensor(acc, tensor, k, x1, y1, stream_label) ==
    IF k > Len(tensor) THEN acc
    ELSE GvaTensor(GvaLabel(acc, tensor[k], x1, y1, stream_label),
                   tensor, k + 1, x1, y1, stream_label)

\* one `d` of results['gva_meta']
GvaRegion(acc, d, stream_label) ==
    IF acc.st.exc # "" THEN acc
    ELSE IF ~ ({"x", "y", "width", "height"} \subseteq DOMAIN d)
    THEN [acc EXCEPT !.st = Raise(@, "KeyError")]
    ELSE LET x1 == d.x
             y1 == d.y
             boxed == rectangle(acc.st, <<x1, y1>>,
                                <<x1 + d.width, y1 + d.height>>, bad_color)
         IN  IF boxed.exc # "" THEN [acc EXCEPT !.st = boxed]
             ELSE IF "tensor" \notin DOMAIN d
             THEN [acc EXCEPT !.st = Raise(boxed, "KeyError")]
             ELSE GvaTensor([acc EXCEPT !.st = boxed], d.tensor, 1, x1, y1,
                            stream_label)

RECURSIVE GvaRegions(_, _, _, _)
GvaRegions(acc, regions, k, stream_label) ==
    IF k > Len(regions) THEN acc
    ELSE GvaRegions(GvaRegion(acc, regions[k], stream_label), regions, k + 1,
                    stream_label)

DrawGva(st, results, stream_label) ==
    IF st.exc # "" \/ "gva_meta" \notin DOMAIN results THEN st
    ELSE GvaRegions([st |-> st, c |-> 0], results.gva_meta, 1, stream_label).st

(* ---------------------------------------------------------------------- *)
(* draw_defect, lines 161-199: the defects and the border                   *)
(* ---------------------------------------------------------------------- *)
\* one `d` of results['defects']
Defect(st, d, stream_label) ==
    IF st.exc # "" THEN st
    ELSE IF ~ ({"tl", "br"} \subseteq DOMAIN d) THEN Raise(st, "KeyError")
    ELSE LET boxed == rectangle(st, d.tl, d.br, bad_color)
             pos == <<d.tl[1], d.br[2] + 20>>
         IN  IF boxed.exc # "" \/ IsNone(stream_label) THEN boxed
             ELSE IF "type" \notin DOMAIN d THEN Raise(boxed, "KeyError")
             ELSE IF Str(d.type) \in DOMAIN stream_label
             THEN putText(boxed, <<stream_label[Str(d.type)]>>, pos, bad_color)
             ELSE putText(boxed, <<Str(d.type)>>, pos, bad_color)

RECURSIVE Defects(_, _, _, _)
Defects(st, defects, k, stream_label) ==
    IF k > Len(defects) THEN st
    ELSE Defects(Defect(st, defects[k], stream_label), defects, k + 1,
                 stream_label)

\* the border added only around a frame that has defects
DrawDefectsBorderIfAny(st, results, stream_label) ==
    IF st.exc # "" \/ "defects" \notin DOMAIN results THEN st
    ELSE LET drawn == Defects(st, results.defects, 1, stream_label)
         IN  IF Len(results.defects) > 0 THEN copyMakeBorder(drawn, bad_color)
             ELSE drawn

DrawDefects(st, results, stream_label) ==
    IF st.exc # "" \/ "defects" \notin DOMAIN results THEN st
    ELSE LET drawn == Defects(st, results.defects, 1, stream_label)
             outline_color == IF Len(results.defects) > 0 THEN bad_color
                              ELSE good_color
         IN  copyMakeBorder(drawn, outline_color)

(* ---------------------------------------------------------------------- *)
(* draw_defect, lines 201-211: the Fps lines                                *)
(* ---------------------------------------------------------------------- *)
\* the metadata keys of the model for which `"Fps" in res` holds, in the
\* order the metadata dict holds them
FpsKeys == <<"Fps", "ingest_Fps">>

RECURSIVE FpsLines(_, _, _, _)
FpsLines(st, results, k, y) ==
    IF k > Len(FpsKeys) \/ st.exc # "" THEN st
    ELSE IF FpsKeys[k] \notin DOMAIN results
    THEN FpsLines(st, results, k + 1, y)
    ELSE FpsLines(putText(st, <<FpsKeys[k], " : ", Str(results[FpsKeys[k]])>>,
                          <<20, y>>, good_color),
                  results, k + 1, y + 20)

DrawFps(st, results) == FpsLines(st, results, 1, 20)

(* ---------------------------------------------------------------------- *)
(* draw_defect, lines 213-240: the display_info lines                       *)
(* ---------------------------------------------------------------------- *)
PriorityColor(p) ==
    CASE p = 0 -> <<0, 255, 0>> [] p = 1 -> <<0, 150, 170>>
      [] p = 2 -> <<0, 0, 255>>

\* the body of the try block for one d_i; acc = [st, dy]
InfoEntry(acc, d_i) ==
    IF "notdict" \in DOMAIN d_i
    THEN [acc EXCEPT !.st = Raise(@, "TypeError")]
    ELSE IF ~ ({"priority", "info"} \subseteq DOMAIN d_i)
    THEN [acc EXCEPT !.st = Raise(@, "KeyError")]
    ELSE LET dy == acc.dy + 10
             priority == d_i.priority
         IN  IF priority.ty = "int" /\ priority.v \in {0, 1, 2}
             THEN IF d_i.info.ty # "str"
                  THEN [st |-> Raise(acc.st, "cv2.error"), dy |-> dy]
                  ELSE [st |-> putText(acc.st, <<d_i.info.v>>, <<20, dy>>,
                                       PriorityColor(priority.v)),
                        dy |-> dy]
             ELSE [acc EXCEPT !.dy = dy]

\* try: ... except TypeError / KeyError / Exception: logger.exception(...)
InfoEntryCaught(acc, d_i) ==
    LET r == InfoEntry(acc, d_i)
    IN  IF r.st.exc = "" THEN r
        ELSE [r EXCEPT !.st = [@ EXCEPT !.exc = "", !.errors = @ + 1]]

RECURSIVE InfoEntries(_, _, _)
InfoEntries(acc, infos, k) ==
    IF k > Len(infos) THEN acc
    ELSE InfoEntries(InfoEntryCaught(acc, infos[k]), infos, k + 1)

DrawDisplayInfo(st, results) ==
    IF st.exc # "" \/ "display_info" \notin DOMAIN results THEN st
    ELSE InfoEntries([st |-> st, dy |-> 50], results.display_info, 1).st

(* ---------------------------------------------------------------------- *)
(* draw_defect, lines 96-242                                                *)
(* ---------------------------------------------------------------------- *)
draw_defect(results, blob, stream_label, cvRaises) ==
    DrawDisplayInfo(
        DrawFps(
            DrawDefects(
                DrawGva(Decode(results, blob, cvRaises), results, stream_label),
                results, stream_label),
            results),
        results)

(* ---------------------------------------------------------------------- *)
(* save_images, lines 244-255                                               *)
(* ---------------------------------------------------------------------- *)
\* tag + img_handle + ".png"
ImgName(msg) ==
    LET tag == IF "defects" \in DOMAIN msg
               THEN IF Len(msg.defects) > 0 THEN "bad_" ELSE "good_"
               ELSE ""
    IN  <<tag, msg.img_handle, ".png">>

\* io is what cv2.imwrite does with a frame it can encode: "written", or
\* "refused" (it returns False, which save_images ignores); it raises on None
save_images(msg, frame, io) ==
    IF "img_handle" \notin DOMAIN msg THEN [exc |-> "KeyError", files |-> {}]
    ELSE IF frame.kind = "none"
    THEN [exc |-> "cv2.error", files |-> {}]
    ELSE IF io = "refused" THEN [exc |-> "", files |-> {}]
    ELSE [exc |-> "", files |-> {ImgName(msg)}]

(* ---------------------------------------------------------------------- *)
(* queue.Queue                                                              *)
(* ---------------------------------------------------------------------- *)
Queue(maxsize) == [maxsize |-> maxsize, items |-> <<>>]
\* full() answering True one item too late
fullOnOverflow(q) == q.maxsize > 0 /\ Len(q.items) > q.maxsize

full(q) == q.maxsize > 0 /\ Len(q.items) >= q.maxsize
empty(q) == Len(q.items) = 0
\* raises queue.Full / queue.Empty instead of blocking
put_nowait(q, item) ==
    IF q.maxsize > 0 /\ Len(q.items) >= q.maxsize THEN [exc |-> "queue.Full", q |-> q]
    ELSE [exc |-> "", q |-> [q EXCEPT !.items = Append(@, item)]]
\* the newest item taken instead of the oldest
get_nowait_newest(q) ==
    IF Len(q.items) = 0 THEN [exc |-> "queue.Empty", q |-> q, item |-> None]
    ELSE [exc |-> "",
          q |-> [q EXCEPT !.items = SubSeq(@, 1, Len(@) - 1)],
          item |-> q.items[Len(q.items)]]

get_nowait(q) ==
    IF Len(q.items) = 0 THEN [exc |-> "queue.Empty", q |-> q, item |-> None]
    ELSE [exc |-> "", q |-> [q EXCEPT !.items = Tail(@)], item |-> Head(q.items)]

(* ---------------------------------------------------------------------- *)
(* The messages a subscription delivers                                     *)
(* ---------------------------------------------------------------------- *)
PixelBlob(n) == [kind |-> "pixels", len |-> n, h |-> 0, w |-> 0]
EncodedBlob(h, w) == [kind |-> "encoded", len |-> 5, h |-> h, w |-> w]
JunkBlob == [kind |-> "junk", len |-> 4, h |-> 0, w |-> 0]

GoodMeta ==
    [height |-> 2, width |-> 2, channels |-> 3, img_handle |-> "h1",
     defects |-> <<>>]
EncodedMeta ==
    [height |-> 2, width |-> 2, channels |-> 3, img_handle |-> "h1",
     encoding_type |-> "jpeg", encoding_level |-> 95]
ADefect == [tl |-> <<1, 1>>, br |-> <<2, 2>>, type |-> 3]

\* the well-formed raw message every topic mostly carries
PlainMessage == [metadata |-> GoodMeta, blob |-> PixelBlob(12)]

\* the other messages of the model
OddMessages ==
    << [metadata |-> None, blob |-> PixelBlob(12)],
       [metadata |-> GoodMeta, blob |-> None],
       \* payload length # height * width * channels
       [metadata |-> GoodMeta, blob |-> PixelBlob(11)],
       \* a compressed frame with one defect
       [metadata |-> EncodedMeta @@
                     [defects |-> <<ADefect>>],
        blob |-> EncodedBlob(2, 2)],
       \* bytes the codec rejects, no overlay field
       [metadata |-> EncodedMeta, blob |-> JunkBlob],
       \* a defect without its 'tl' corner
       [metadata |-> [GoodMeta EXCEPT !.defects = <<[br |-> <<2, 2>>, type |-> 3]>>],
        blob |-> PixelBlob(12)],
       \* no img_handle
       [metadata |-> [height |-> 2, width |-> 2, channels |-> 3],
        blob |-> PixelBlob(12)] >>

\* the sequences of up to n elements of A
SeqsUpTo(A, n) == UNION {[1..k -> A] : k \in 0..n}

BaseMeta == [height |-> 2, width |-> 2, channels |-> 3, img_handle |-> "h1"]

\* one entry of results['defects']: a type the label map has, one it lacks
DefectKinds ==
    { [tl |-> <<1, 1>>, br |-> <<2, 2>>, type |-> 3],
      [tl |-> <<1, 1>>, br |-> <<2, 2>>, type |-> 7] }

\* one entry of d['tensor']: a label id the map has, one it lacks, None
LabelKinds ==
    { [label_id |-> [ty |-> "int", v |-> 3]],
      [label_id |-> [ty |-> "int", v |-> 7]],
      [label_id |-> [ty |-> "none", v |-> 0]] }

Region(tensor) ==
    [x |-> 1, y |-> 1, width |-> 1, height |-> 1, tensor |-> tensor]

\* one entry of results['display_info']: a valid one, one whose priority is
\* a string, one that is no dict, one without its 'info' key
InfoKinds ==
    { [priority |-> [ty |-> "int", v |-> 0], info |-> [ty |-> "str", v |-> "ok"]],
      [priority |-> [ty |-> "str", v |-> "high"], info |-> [ty |-> "str", v |-> "hi"]],
      [notdict |-> TRUE],
      [priority |-> [ty |-> "int", v |-> 1]] }

\* the presence of 'encoding_type' and 'encoding_level'
EncodingKeys ==
    { [height |-> 2],
      [encoding_type |-> "jpeg"],
      [encoding_level |-> 95],
      [encoding_type |-> "jpeg", encoding_level |-> 95] }

\* the messages that exercise draw_defect: raw frames with a defects list,
\* with a gva_meta region, with a display_info list, with Fps, and each
\* combination of the encoding keys with each kind of payload
DrawMessages(n) ==
    {[metadata |-> BaseMeta, blob |-> PixelBlob(12)]}
    \cup {[metadata |-> BaseMeta @@ [defects |-> ds], blob |-> PixelBlob(12)] :
            ds \in SeqsUpTo(DefectKinds, n)}
    \cup {[metadata |-> BaseMeta @@ [gva_meta |-> <<Region(ts)>>] @@ more,
           blob |-> PixelBlob(12)] :
            ts \in SeqsUpTo(LabelKinds, n),
            more \in {[height |-> 2],
                      [defects |-> <<[tl |-> <<1, 1>>, br |-> <<2, 2>>, type |-> 7]>>]}}
    \cup {[metadata |-> BaseMeta @@ [display_info |-> infos], blob |-> PixelBlob(12)] :
            infos \in SeqsUpTo(InfoKinds, n)}
    \cup {[metadata |-> BaseMeta @@ [Fps |-> 5], blob |-> PixelBlob(12)]}
    \cup {[metadata |-> BaseMeta @@ enc @@ more, blob |-> blob] :
            enc \in EncodingKeys,
            more \in {[height |-> 2], [defects |-> <<>>]},
            blob \in {PixelBlob(12), EncodedBlob(3, 4), JunkBlob}}

\* jsonConfig["labels"]: topic -> (id string -> label text)
Labels == ("camA" :> ("3" :> "scratch"))

\* lines 271-276
StreamLabel(labels, topic) ==
    IF topic \in DOMAIN labels THEN labels[topic] ELSE None

(* ---------------------------------------------------------------------- *)
(* State                                                                    *)
(* ---------------------------------------------------------------------- *)
VARIABLES
    topic_config_list, \* main: the topic of each (topic, msgbus_cfg) entry
    save_image,        \* SubscriberCallback.save_image
    topicQueueDict,    \* main's queueDict, shared with SubscriberCallback
    started,           \* msg_bus_subscriber: threads started so far
    pc,                \* where each callback thread is
    died,              \* the exception that ended a callback thread
    msg,               \* callback's locals metadata, blob
    frame,             \* callback's local frame (with where it came from)
    nrecv,             \* per thread: recv() calls that returned
    workload,          \* what the bus delivers: messages per topic, odd ones
    saved,             \* the files save_images wrote
    warnings,          \* "Dropping frames as the queue is full" log lines
    errors,            \* logger.error / logger.exception lines of draw_defect
    attempts,          \* per topic: queue_publish calls that returned
    dropped,           \* per topic: seq numbers of the frames discarded
    pops,              \* per topic: frames the display loop took
    mainpc,            \* main: "spawn", "loop" or "exited" (os._exit)
    buttonCount,       \* display loop: the key being polled
    dpc,               \* display loop: "poll" (line 481) or "get" (line 482)
    imageDict          \* display loop: the image each button shows

vars ==
    <<topic_config_list, save_image, topicQueueDict, started, pc, died, msg,
      frame, nrecv, workload, saved, warnings, errors, attempts, dropped, pops,
      mainpc, buttonCount, dpc, imageDict>>

subVars == <<pc, died, msg, frame, nrecv>>
ghostVars == <<attempts, dropped, pops>>
displayVars == <<buttonCount, dpc, imageDict>>
configVars == <<topic_config_list, save_image, workload>>

Threads == 1..Len(topic_config_list)
Topics == {topic_config_list[i] : i \in Threads}

RECURSIVE KeysFrom(_, _)
\* the keys of queueDict in insertion order (lines 385-388)
KeysFrom(list, k) ==
    IF k > Len(list) THEN <<>>
    ELSE IF \E j \in 1..(k - 1) : list[j] = list[k] THEN KeysFrom(list, k + 1)
    ELSE <<list[k]>> \o KeysFrom(list, k + 1)
Keys == KeysFrom(topic_config_list, 1)

NoMessage == [metadata |-> None, blob |-> None]
NoFrame == [sub |-> 0, topic |-> "", seq |-> 0, img |-> NoneFrame]
\* blankImage, lines 420-431
BlankImage == [sub |-> 0, topic |-> "", seq |-> 0, img |-> Array(300, 300, 3)]
Alive == [where |-> "", exc |-> ""]

\* the lists of topics main may be configured with
TopicLists == {<<"camA", "camB">>}

\* recv[i]: how many messages thread i receives at most (the last entry
\* stands for every further thread); odd: the threads whose messages may be
\* other than PlainMessage
Workloads ==
    { [recv |-> <<MaxBurst, MaxOther>>, odd |-> {}],
      [recv |-> <<MaxMixed, MaxOther>>, odd |-> {1}] }
\* the topic lists and deliveries of the draw workload: one topic, with a
\* label map (camA) or without one (camB)
DrawTopicLists == {<<"camA">>, <<"camB">>}
DrawWorkloads == {[recv |-> <<MaxDraw>>, odd |-> {}]}

RecvBudget(i) == workload.recv[IF i < Len(workload.recv) THEN i
                               ELSE Len(workload.recv)]

\* the state main is in when it calls msg_bus_subscriber, for the topic
\* lists and the deliveries given
InitWith(lists, loads) ==
    /\ topic_config_list \in lists
    /\ save_image \in BOOLEAN
    /\ workload \in loads
    /\ topicQueueDict = [t \in Topics |-> Queue(QueueDictMaxSize)]
    /\ started = 0
    /\ pc = [i \in Threads |-> "unstarted"]
    /\ died = [i \in Threads |-> Alive]
    /\ msg = [i \in Threads |-> NoMessage]
    /\ frame = [i \in Threads |-> NoFrame]
    /\ nrecv = [i \in Threads |-> 0]
    /\ saved = {}
    /\ warnings = 0
    /\ errors = 0
    /\ attempts = [t \in Topics |-> 0]
    /\ dropped = [t \in Topics |-> {}]
    /\ pops = [t \in Topics |-> 0]
    /\ mainpc = "spawn"
    /\ buttonCount = 0
    /\ dpc = "poll"
    /\ imageDict = [t \in Topics |-> BlankImage]

Init == InitWith(TopicLists, Workloads)

\* an exception that ends one callback thread taken to end the others too
RunningWhileAllAlive(i) ==
    mainpc # "exited" /\ i \in Threads /\ \A j \in Threads : pc[j] # "dead"

\* a thread runs until the process exits (os._exit, lines 529-531)

Running_(i) == mainpc # "exited" /\ i \in Threads

\* the thread sent back to create its subscription again
DieThenReconnect(i, where, exc) ==
    /\ pc' = [pc EXCEPT ![i] = "connect"]
    /\ died' = [died EXCEPT ![i] = [where |-> where, exc |-> exc]]
    /\ msg' = [msg EXCEPT ![i] = NoMessage]
    /\ frame' = [frame EXCEPT ![i] = NoFrame]

\* an exception leaves callback: the thread ends (no except clause, no
\* retry in lines 257-290 or 339-344)

Die(i, where, exc) ==
    /\ pc' = [pc EXCEPT ![i] = "dead"]
    /\ died' = [died EXCEPT ![i] = [where |-> where, exc |-> exc]]
    /\ msg' = [msg EXCEPT ![i] = NoMessage]
    /\ frame' = [frame EXCEPT ![i] = NoFrame]

(* ---------------------------------------------------------------------- *)
(* msg_bus_subscriber, lines 329-344                                        *)
(* ---------------------------------------------------------------------- *)
\* each thread joined before the next one is started
StartThreadJoined ==
    /\ mainpc = "spawn"
    /\ started < Len(topic_config_list)
    /\ started > 0 => pc[started] = "dead"
    /\ started' = started + 1
    /\ pc' = [pc EXCEPT ![started + 1] = "connect"]
    /\ mainpc' = IF started + 1 = Len(topic_config_list) THEN "loop" ELSE "spawn"
    /\ UNCHANGED <<configVars, topicQueueDict, died, msg, frame, nrecv,
                   saved, warnings, errors, ghostVars, displayVars>>

\* callback_thread.start() for the next entry; after the last one
\* msg_bus_subscriber returns and main enters its display loop
StartThread ==
    /\ mainpc = "spawn"
    /\ started < Len(topic_config_list)
    /\ started' = started + 1
    /\ pc' = [pc EXCEPT ![started + 1] = "connect"]
    /\ mainpc' = IF started + 1 = Len(topic_config_list) THEN "loop" ELSE "spawn"
    /\ UNCHANGED <<configVars, topicQueueDict, died, msg, frame, nrecv,
                   saved, warnings, errors, ghostVars, displayVars>>

(* ---------------------------------------------------------------------- *)
(* SubscriberCallback.callback, lines 257-290                                *)
(* ---------------------------------------------------------------------- *)
\* lines 265-276: MsgbusContext, new_subscriber, the stream_label lookup
Connect(i) ==
    /\ Running_(i)
    /\ pc[i] = "connect"
    /\ \E ok \in BOOLEAN :
          IF ok
          THEN /\ pc' = [pc EXCEPT ![i] = "recv"]
               /\ UNCHANGED <<died, msg, frame>>
          ELSE Die(i, "connect", "RuntimeError")
    /\ UNCHANGED <<configVars, topicQueueDict, started, nrecv, saved,
                   warnings, errors, ghostVars, mainpc, displayVars>>

\* line 279: subscriber.recv() returns the next message, or raises
Recv(i) ==
    /\ Running_(i)
    /\ pc[i] = "recv"
    /\ \/ /\ nrecv[i] < RecvBudget(i)
          /\ \E k \in 0..Len(OddMessages) :
                /\ k > 0 => i \in workload.odd
                /\ msg' = [msg EXCEPT ![i] = IF k = 0 THEN PlainMessage
                                             ELSE OddMessages[k]]
          /\ pc' = [pc EXCEPT ![i] = "got"]
          /\ nrecv' = [nrecv EXCEPT ![i] = @ + 1]
          /\ UNCHANGED <<died, frame>>
       \/ /\ Die(i, "recv", "RuntimeError")
          /\ UNCHANGED nrecv
    /\ UNCHANGED <<configVars, topicQueueDict, started, saved, warnings,
                   errors, ghostVars, mainpc, displayVars>>

\* line 279 under the draw workload: the next message is any of DrawMessages
RecvDraw(i) ==
    /\ Running_(i)
    /\ pc[i] = "recv"
    /\ \/ /\ nrecv[i] < RecvBudget(i)
          /\ \E m \in DrawMessages(MaxList) : msg' = [msg EXCEPT ![i] = m]
          /\ pc' = [pc EXCEPT ![i] = "got"]
          /\ nrecv' = [nrecv EXCEPT ![i] = @ + 1]
          /\ UNCHANGED <<died, frame>>
       \/ /\ Die(i, "recv", "RuntimeError")
          /\ UNCHANGED nrecv
    /\ UNCHANGED <<configVars, topicQueueDict, started, saved, warnings,
                   errors, ghostVars, mainpc, displayVars>>

\* `or` in place of `and`
HasMessageEither(m) == ~ IsNone(m.metadata) \/ ~ IsNone(m.blob)

\* line 281: `metadata is not None and blob is not None`
HasMessage(m) == ~ IsNone(m.metadata) /\ ~ IsNone(m.blob)

\* lines 281-283: the None test and draw_defect
Process(i) ==
    /\ Running_(i)
    /\ pc[i] = "got"
    /\ IF ~ HasMessage(msg[i])
       THEN /\ pc' = [pc EXCEPT ![i] = "recv"]
            /\ msg' = [msg EXCEPT ![i] = NoMessage]
            /\ UNCHANGED <<died, frame, errors>>
       ELSE \E cvRaises \in BOOLEAN :
              LET topic == topic_config_list[i]
                  r == draw_defect(msg[i].metadata, msg[i].blob,
                                   StreamLabel(Labels, topic), cvRaises)
              IN  /\ errors' = errors + r.errors
                  /\ IF r.exc # ""
                     THEN Die(i, "draw_defect", r.exc)
                     ELSE /\ frame' = [frame EXCEPT ![i] =
                                         [sub |-> i, topic |-> topic,
                                          seq |-> nrecv[i], img |-> r.frame]]
                          /\ pc' = [pc EXCEPT ![i] = IF save_image THEN "save"
                                                     ELSE "publish"]
                          /\ UNCHANGED <<died, msg>>
    /\ UNCHANGED <<configVars, topicQueueDict, started, nrecv, saved,
                   warnings, ghostVars, mainpc, displayVars>>

\* lines 287-288: save_images(topic, results, frame)
Save(i) ==
    /\ Running_(i)
    /\ pc[i] = "save"
    /\ \E io \in {"written", "refused"} :
          LET r == save_images(msg[i].metadata, frame[i].img, io)
          IN  IF r.exc # ""
              THEN /\ Die(i, "save_images", r.exc)
                   /\ UNCHANGED saved
              ELSE /\ saved' = saved \cup r.files
                   /\ pc' = [pc EXCEPT ![i] = "publish"]
                   /\ UNCHANGED <<died, msg, frame>>
    /\ UNCHANGED <<configVars, topicQueueDict, started, nrecv,
                   warnings, errors, ghostVars, mainpc, displayVars>>

\* the `key == topic` test left out
AnyKey(dict, topic) == DOMAIN dict

\* lines 88-89: the keys of topicQueueDict that queue_publish acts on
MatchingKeys(dict, topic) == {key \in DOMAIN dict : key = topic}

\* the full() test left out
ShouldPutAlways(q) == TRUE

\* line 90: `if not self.topicQueueDict[key].full()`
ShouldPut(q) == ~ full(q)

\* the frame discarded without the warning
DropFrameSilently(i, key) ==
    /\ attempts' = [attempts EXCEPT ![key] = @ + 1]
    /\ dropped' = [dropped EXCEPT ![key] = @ \cup {<<i, frame[i].seq>>}]
    /\ pc' = [pc EXCEPT ![i] = "recv"]
    /\ msg' = [msg EXCEPT ![i] = NoMessage]
    /\ frame' = [frame EXCEPT ![i] = NoFrame]
    /\ UNCHANGED <<pops, topicQueueDict, warnings>>

\* the oldest buffered frame evicted to make room for the new one
DropOldest(i, key) ==
    /\ warnings' = warnings + 1
    /\ attempts' = [attempts EXCEPT ![key] = @ + 1]
    /\ dropped' = [dropped EXCEPT ![key] =
                      @ \cup {<<topicQueueDict[key].items[1].sub,
                                topicQueueDict[key].items[1].seq>>}]
    /\ topicQueueDict' = [topicQueueDict EXCEPT ![key].items =
                             Append(Tail(@), frame[i])]
    /\ pc' = [pc EXCEPT ![i] = "recv"]
    /\ msg' = [msg EXCEPT ![i] = NoMessage]
    /\ frame' = [frame EXCEPT ![i] = NoFrame]
    /\ UNCHANGED pops

\* lines 93-94: the warning; queue_publish returns and the frame is gone
DropFrame(i, key) ==
    /\ warnings' = warnings + 1
    /\ attempts' = [attempts EXCEPT ![key] = @ + 1]
    /\ dropped' = [dropped EXCEPT ![key] = @ \cup {<<i, frame[i].seq>>}]
    /\ pc' = [pc EXCEPT ![i] = "recv"]
    /\ msg' = [msg EXCEPT ![i] = NoMessage]
    /\ frame' = [frame EXCEPT ![i] = NoFrame]
    /\ UNCHANGED <<pops, topicQueueDict>>

\* lines 88-90 and 93-94: queue_publish up to the full() test
Publish(i) ==
    /\ Running_(i)
    /\ pc[i] = "publish"
    /\ LET keys == MatchingKeys(topicQueueDict, topic_config_list[i])
       IN  IF keys = {}
           THEN /\ pc' = [pc EXCEPT ![i] = "recv"]
                /\ msg' = [msg EXCEPT ![i] = NoMessage]
                /\ frame' = [frame EXCEPT ![i] = NoFrame]
                /\ UNCHANGED <<warnings, ghostVars, topicQueueDict>>
           ELSE \E key \in keys :
                  IF ShouldPut(topicQueueDict[key])
                  THEN /\ pc' = [pc EXCEPT ![i] = "put"]
                       /\ UNCHANGED <<msg, frame, warnings, ghostVars,
                                      topicQueueDict>>
                  ELSE DropFrame(i, key)
    /\ UNCHANGED <<configVars, started, died, nrecv, saved, errors, mainpc,
                   displayVars>>

\* lines 91-92: put_nowait(frame); del frame
Put(i) ==
    /\ Running_(i)
    /\ pc[i] = "put"
    /\ \E key \in MatchingKeys(topicQueueDict, topic_config_list[i]) :
          LET r == put_nowait(topicQueueDict[key], frame[i])
          IN  IF r.exc # ""
              THEN /\ Die(i, "put_nowait", r.exc)
                   /\ UNCHANGED <<topicQueueDict, attempts>>
              ELSE /\ topicQueueDict' = [topicQueueDict EXCEPT ![key] = r.q]
                   /\ attempts' = [attempts EXCEPT ![key] = @ + 1]
                   /\ pc' = [pc EXCEPT ![i] = "recv"]
                   /\ msg' = [msg EXCEPT ![i] = NoMessage]
                   /\ frame' = [frame EXCEPT ![i] = NoFrame]
                   /\ UNCHANGED died
    /\ UNCHANGED <<configVars, started, nrecv, saved, warnings, errors,
                   dropped, pops, mainpc, displayVars>>

(* ---------------------------------------------------------------------- *)
(* main's display loop, lines 478-531                                       *)
(* ---------------------------------------------------------------------- *)
\* the display loop staying at the key it is at
NextButtonSame == buttonCount

\* line 523, and lines 524 and 479 after the last key
NextButton == IF buttonCount + 1 < Len(Keys) THEN buttonCount + 1 ELSE 0

\* lines 483-489: Image.fromarray and the split into three or four bands
Displayable(img) == img.kind = "array" /\ img.c \in {3, 4}

\* an empty queue taken to mean there is nothing to show
DisplayPollBlank ==
    /\ mainpc = "loop"
    /\ dpc = "poll"
    /\ IF empty(topicQueueDict[Keys[buttonCount + 1]])
       THEN /\ buttonCount' = NextButton
            /\ imageDict' = [imageDict EXCEPT ![Keys[buttonCount + 1]] = BlankImage]
            /\ UNCHANGED dpc
       ELSE /\ dpc' = "get"
            /\ UNCHANGED <<buttonCount, imageDict>>
    /\ UNCHANGED <<configVars, topicQueueDict, started, subVars, saved,
                   warnings, errors, ghostVars, mainpc>>

\* line 481 and lines 515-523: an empty queue keeps the button's image
DisplayPoll ==
    /\ mainpc = "loop"
    /\ dpc = "poll"
    /\ IF empty(topicQueueDict[Keys[buttonCount + 1]])
       THEN /\ buttonCount' = NextButton
            /\ UNCHANGED dpc
       ELSE /\ dpc' = "get"
            /\ UNCHANGED buttonCount
    /\ UNCHANGED <<configVars, topicQueueDict, started, subVars, saved,
                   warnings, errors, ghostVars, mainpc, imageDict>>

\* lines 482-514: get_nowait and the new button image; any exception ends
\* the process (lines 527-531)
DisplayGet ==
    /\ mainpc = "loop"
    /\ dpc = "get"
    /\ LET key == Keys[buttonCount + 1]
           r == get_nowait(topicQueueDict[key])
       IN  IF r.exc # ""
           THEN /\ mainpc' = "exited"
                /\ UNCHANGED <<topicQueueDict, pops, imageDict, buttonCount, dpc>>
           ELSE /\ topicQueueDict' = [topicQueueDict EXCEPT ![key] = r.q]
                /\ pops' = [pops EXCEPT ![key] = @ + 1]
                /\ IF Displayable(r.item.img)
                   THEN /\ imageDict' = [imageDict EXCEPT ![key] = r.item]
                        /\ buttonCount' = NextButton
                        /\ dpc' = "poll"
                        /\ UNCHANGED mainpc
                   ELSE /\ mainpc' = "exited"
                        /\ UNCHANGED <<imageDict, buttonCount, dpc>>
    /\ UNCHANGED <<configVars, started, subVars, saved, warnings, errors,
                   attempts, dropped>>

Next ==
    \/ StartThread
    \/ \E i \in Threads : Connect(i)
    \/ \E i \in Threads : Recv(i)
    \/ \E i \in Threads : Process(i)
    \/ \E i \in Threads : Save(i)
    \/ \E i \in Threads : Publish(i)
    \/ \E i \in Threads : Put(i)
    \/ DisplayPoll
    \/ DisplayGet

InitDraw == InitWith(DrawTopicLists, DrawWorkloads)

NextDraw ==
    \/ StartThread
    \/ \E i \in Threads : Connect(i)
    \/ \E i \in Threads : RecvDraw(i)
    \/ \E i \in Threads : Process(i)
    \/ \E i \in Threads : Save(i)
    \/ \E i \in Threads : Publish(i)
    \/ \E i \in Threads : Put(i)
    \/ DisplayPoll
    \/ DisplayGet

SpecDraw == InitDraw /\ [][NextDraw]_vars

\* two publisher/topic entries that name the same topic, as in
\* SubTopics = "pub1/camA,pub2/camA": queueDict (line 388) gets one key for
\* both, topic_config_list (line 400) one entry for each
SharedTopicLists == {<<"camA", "camA">>}

InitShared == InitWith(SharedTopicLists, Workloads)

SpecShared == InitShared /\ [][Next]_vars

\* the deliveries under which the display loop's progress is checked: the
\* first topic delivers up to MaxLive well-formed messages, every other
\* topic up to MaxOther
LiveWorkloads == {[recv |-> <<MaxLive, MaxOther>>, odd |-> {}]}

InitLive == InitWith(TopicLists, LiveWorkloads)

\* main's `while True` (line 478) never pauses between two statements of
\* its polling pass: the empty() test and get_nowait are taken whenever
\* they can be; nothing is assumed of the subscriber threads
SpecLive ==
    /\ InitLive
    /\ [][Next]_vars
    /\ WF_vars(DisplayPoll)
    /\ WF_vars(DisplayGet)

Spec == Init /\ [][Next]_vars

(* ---------------------------------------------------------------------- *)
(* Properties of the topic queues                                           *)
(* ---------------------------------------------------------------------- *)
Items(t) == topicQueueDict[t].items
TopicOf(i) == topic_config_list[i]
\* thread i took a step
Stepped(i) == pc'[i] # pc[i]

\* C1: under every interleaving of queue_publish and the display loop, each
\* topic's queue buffers between 0 and 10 frames.
C1_QueueWithinCapacity ==
    \A t \in Topics : Len(Items(t)) >= 0 /\ Len(Items(t)) <= 10

\* a queue at capacity after a frame was discarded and another was taken
C1_Witness ==
    \E t \in Topics : Len(Items(t)) = 10 /\ dropped[t] # {} /\ pops[t] > 0

\* C2: queue_publish called for a topic whose queue holds 10 frames returns
\* (the thread is back at recv, not ended by an exception), emits one
\* warning, keeps no reference to the frame and leaves every queue as it
\* was; a discarded frame is never in a queue afterwards.
C2_FullQueueDiscards ==
    /\ [][\A i \in Threads :
            (pc[i] = "publish" /\ Len(Items(TopicOf(i))) = 10 /\ Stepped(i))
            => /\ pc'[i] = "recv"
               /\ died'[i] = Alive
               /\ frame'[i] = NoFrame
               /\ warnings' = warnings + 1
               /\ topicQueueDict' = topicQueueDict
               /\ <<i, frame[i].seq>> \in dropped'[TopicOf(i)]]_vars
    /\ [](\A t \in Topics : \A k \in 1..Len(Items(t)) :
            <<Items(t)[k].sub, Items(t)[k].seq>> \notin dropped[t])

\* a frame was discarded, its thread went on and pushed a later frame
C2_Witness ==
    \E i \in Threads :
       /\ dropped[TopicOf(i)] # {}
       /\ Len(Items(TopicOf(i))) > 0
       /\ \A d \in dropped[TopicOf(i)] :
             Items(TopicOf(i))[Len(Items(TopicOf(i)))].seq > d[2]

RECURSIVE DropTotal(_)
DropTotal(ts) ==
    IF ts = {} THEN 0
    ELSE LET t == CHOOSE x \in ts : TRUE
         IN  Cardinality(dropped[t]) + DropTotal(ts \ {t})

RECURSIVE SeqRange(_, _)
SeqRange(first, last) ==
    IF first > last THEN <<>> ELSE <<first>> \o SeqRange(first + 1, last)

Seqs(t) == [k \in 1..Len(Items(t)) |-> Items(t)[k].seq]

\* C4: for every k >= 0, after thread i received and pushed frames
\* f1..f(10+k) to its topic with no pop, the queue holds f1..f10 in that
\* order and exactly f11..f(10+k) were discarded (k warnings at least); the
\* first pop then takes f1.
C4_FirstTenKept ==
    /\ [](\A i \in Threads :
            LET t == TopicOf(i)
            IN  (pops[t] = 0 /\ attempts[t] = nrecv[i] /\ attempts[t] >= 10)
                => /\ Seqs(t) = SeqRange(1, 10)
                   /\ \A k \in 1..10 : Items(t)[k].sub = i
                   /\ dropped[t] = {<<i, n>> : n \in 11..attempts[t]}
                   /\ Cardinality(dropped[t]) = attempts[t] - 10
                   /\ warnings >= attempts[t] - 10)
    /\ [][\A t \in Topics :
            (pops[t] = 0 /\ attempts[t] >= 10 /\ pops'[t] = 1)
            => /\ imageDict'[t].seq = 1
               /\ Seqs(t)' = SeqRange(2, 10)]_vars

\* twelve frames pushed with no pop (two discarded), then f1 taken
C4_Witness ==
    \E t \in Topics :
       /\ attempts[t] = 12
       /\ Cardinality(dropped[t]) = 2
       /\ pops[t] = 1
       /\ imageDict[t].seq = 1
       /\ Seqs(t) = SeqRange(2, 10)

\* C5: within one topic the frames are taken in the order they were
\* received: the buffered frames are in receive order and newer than the
\* frame last shown, they are frames the topic's thread received, and a pop
\* takes the oldest of them (the head) and leaves the rest in place.
C5_PopsInReceiveOrder ==
    /\ [](\A t \in Topics :
            /\ \A k \in 1..Len(Items(t)) :
                  /\ Items(t)[k].seq \in 1..nrecv[Items(t)[k].sub]
                  /\ Items(t)[k].seq > imageDict[t].seq
            /\ \A k, l \in 1..Len(Items(t)) :
                  k < l => Items(t)[k].seq < Items(t)[l].seq)
    /\ [][\A t \in Topics :
            pops'[t] # pops[t]
            => /\ pops'[t] = pops[t] + 1
               /\ Len(Items(t)) > 0
               /\ \A k \in 1..Len(Items(t)) : Items(t)[1].seq <= Items(t)[k].seq
               /\ Items(t)' = Tail(Items(t))
               /\ \/ imageDict'[t] = Items(t)[1]
                  \/ mainpc' = "exited"]_vars

\* a second frame was taken while newer ones were still buffered
C5_Witness ==
    \E t \in Topics :
       pops[t] >= 2 /\ imageDict[t].seq >= 2 /\ Len(Items(t)) >= 2

\* C6: a queue holds only frames received on its own topic, a button only
\* shows a frame of its own topic, and a step of a subscriber thread leaves
\* the queue of every other topic unchanged.
C6_TopicIsolation ==
    /\ [](\A t \in Topics :
            /\ \A k \in 1..Len(Items(t)) : Items(t)[k].topic = t
            /\ imageDict[t].topic \in {t, ""})
    /\ [][\A i \in Threads : \A t \in Topics :
            (Stepped(i) /\ t # TopicOf(i))
            => topicQueueDict'[t] = topicQueueDict[t]]_vars

\* both topics have frames buffered at once
C6_Witness ==
    /\ \A t \in Topics : Len(Items(t)) > 0
    /\ \E i \in Threads : pc[i] = "put"

(* ---------------------------------------------------------------------- *)
(* Properties of the handling of one message                                *)
(* ---------------------------------------------------------------------- *)
\* C7: a decode or render failure inside draw_defect is caught in the
\* subscriber, which stays in its receive loop: no thread is ever ended by
\* an exception that left draw_defect.
C7_FailureKeepsReceiving ==
    \A i \in Threads : pc[i] = "dead" => died[i].where # "draw_defect"

\* C8: a frame that failed to decode is never handed on: every frame that
\* left draw_defect (held by a thread, buffered or shown) is a decoded one.
C8_UndecodedNeverHandedOn ==
    /\ \A i \in Threads :
          pc[i] \in {"save", "publish", "put"} => frame[i].img.decoded
    /\ \A t \in Topics : \A k \in 1..Len(Items(t)) : Items(t)[k].img.decoded

\* C9: a message whose metadata or payload is None is skipped: the thread
\* goes back to recv with no frame, and nothing is saved, pushed, discarded
\* or logged for it.
C9_NoneMessageSkipped ==
    [][\A i \in Threads :
         (pc[i] = "got" /\ Stepped(i)
            /\ (IsNone(msg[i].metadata) \/ IsNone(msg[i].blob)))
         => /\ pc'[i] = "recv"
            /\ died'[i] = Alive
            /\ frame'[i] = NoFrame
            /\ UNCHANGED <<topicQueueDict, saved, warnings, attempts, dropped>>]_vars

\* a thread that skipped a message and is back at recv
C9_Witness ==
    \E i \in Threads :
       /\ pc[i] = "recv"
       /\ died[i] = Alive
       /\ nrecv[i] = 1
       /\ attempts[TopicOf(i)] = 0

\* C10: save_images runs for a message if and only if save_image is set,
\* and a failure inside it does not affect the pipeline: no thread is ever
\* ended by an exception that left save_images.
C10_SaveNeverStopsPipeline ==
    /\ \A i \in Threads : pc[i] = "save" => save_image
    /\ ~ save_image => saved = {}
    /\ \A i \in Threads : pc[i] = "dead" => died[i].where # "save_images"

(* ---------------------------------------------------------------------- *)
(* Properties of the threads                                                *)
(* ---------------------------------------------------------------------- *)
\* thread i ended because new_subscriber or recv raised
FatallyStopped(i) ==
    pc[i] = "dead" /\ died[i].where \in {"connect", "recv"}

\* the next statement of callback thread j can be executed
CanStep(j) ==
    ENABLED (Connect(j) \/ Recv(j) \/ Process(j) \/ Save(j) \/ Publish(j) \/ Put(j))

\* C11: the step in which subscription creation or recv ends one thread
\* changes nothing of any other thread, of the queues or of the display
\* loop; and while the process runs, with any number of threads ended that
\* way, main can start the threads not yet started, every started thread
\* that has not ended can execute its next statement (receive, push into
\* its queue), and the display loop can execute its next poll.
C11_FatalFailureStaysLocal ==
    /\ [][\A i \in Threads :
            (~ FatallyStopped(i) /\ FatallyStopped(i)')
            => /\ \A j \in Threads \ {i} :
                     /\ pc'[j] = pc[j]
                     /\ died'[j] = died[j]
                     /\ msg'[j] = msg[j]
                     /\ frame'[j] = frame[j]
               /\ UNCHANGED <<topicQueueDict, started, mainpc, displayVars>>]_vars
    /\ []((mainpc # "exited" /\ \E i \in Threads : FatallyStopped(i))
            => /\ \A j \in Threads :
                     pc[j] \notin {"unstarted", "dead"} => CanStep(j)
               /\ mainpc = "spawn" => ENABLED StartThread
               /\ mainpc = "loop" => ENABLED (DisplayPoll \/ DisplayGet))

\* one thread ended by a failed recv while another is in the middle of a
\* push and the display loop in the middle of taking a frame
C11_Witness ==
    \E i, j \in Threads :
       /\ FatallyStopped(i)
       /\ pc[j] = "put"
       /\ mainpc = "loop"
       /\ dpc = "get"

\* C12: msg_bus_subscriber starts the threads one by one in list order, one
\* thread per entry and never a second one for an entry; it is never held
\* up by a thread it started, and it has returned (main is past it) exactly
\* when all n entries have their thread; thread i works for the topic of
\* entry i.
C12_OneThreadPerEntry ==
    /\ [](/\ started \in 0..Len(topic_config_list)
          /\ \A i \in Threads : pc[i] # "unstarted" <=> i <= started
          /\ mainpc = "spawn" <=> started < Len(topic_config_list)
          /\ mainpc = "spawn" => ENABLED StartThread
          /\ \A i \in Threads :
                frame[i] # NoFrame
                => frame[i].sub = i /\ frame[i].topic = topic_config_list[i])
    /\ [][started' # started
            => /\ started' = started + 1
               /\ pc[started'] = "unstarted"
               /\ pc'[started'] = "connect"
               /\ \A j \in Threads \ {started'} : pc'[j] = pc[j]]_vars

\* msg_bus_subscriber has returned while none of the threads it started has
\* even connected yet
C12_Witness ==
    /\ mainpc = "loop"
    /\ started = Len(topic_config_list)
    /\ \A i \in Threads : pc[i] = "connect"

\* the threads that have pushed a frame of those buffered on topic t
Producers(t) == {Items(t)[k].sub : k \in 1..Len(Items(t))}

\* C13: for every configured list of publisher/topic entries, every topic
\* queue has exactly one producer thread: the frames buffered in a queue
\* were all pushed by the same thread.
C13_OneProducerPerQueue ==
    \A t \in Topics : Cardinality(Producers(t)) <= 1

(* ---------------------------------------------------------------------- *)
(* Properties of the display loop                                           *)
(* ---------------------------------------------------------------------- *)
\* the key the display loop is at
PolledKey == Keys[buttonCount + 1]

\* C14: when the display loop finds the queue of the key it is at empty, it
\* can take its step (it does not block), the step raises nothing (main
\* stays in its loop), every button keeps the image it showed, no queue
\* changes, and the loop is at the next key; a button shows the blank image
\* until a frame is taken from its queue, and its image changes only to a
\* frame just taken from its queue.
C14_EmptyQueueKeepsImage ==
    /\ [](/\ (mainpc = "loop" /\ dpc = "poll") => ENABLED DisplayPoll
          /\ \A t \in Topics : pops[t] = 0 => imageDict[t] = BlankImage)
    /\ [][(mainpc = "loop" /\ dpc = "poll" /\ Len(Items(PolledKey)) = 0
             /\ subVars' = subVars)
            => /\ mainpc' = "loop"
               /\ dpc' = "poll"
               /\ imageDict' = imageDict
               /\ topicQueueDict' = topicQueueDict
               /\ buttonCount' = (buttonCount + 1) % Len(Keys)]_vars
    /\ [][\A t \in Topics :
            imageDict'[t] # imageDict[t]
            => /\ pops'[t] = pops[t] + 1
               /\ imageDict'[t] = Items(t)[1]]_vars

\* the display loop is at a topic whose queue is empty and whose button
\* shows the frame taken from it in an earlier pass
C14_Witness ==
    /\ mainpc = "loop"
    /\ dpc = "poll"
    /\ Len(Items(PolledKey)) = 0
    /\ pops[PolledKey] > 0
    /\ imageDict[PolledKey].seq = pops[PolledKey]
    /\ \E t \in Topics : t # PolledKey /\ Len(Items(t)) > 0

(* ---------------------------------------------------------------------- *)
(* Properties of draw_defect                                                *)
(* ---------------------------------------------------------------------- *)
\* thread i holds the frame draw_defect returned for the message in msg[i]
Drawn(i) == pc[i] \in {"save", "publish", "put"}

\* the positions of the drawing operations of one kind applied to img
OpsOf(img, kind) == {k \in 1..Len(img.ops) : img.ops[k].op = kind}

\* the number of regions of the metadata's gva_meta list
Regions(m) == IF "gva_meta" \in DOMAIN m THEN Len(m.gva_meta) ELSE 0

\* height and width of the image the message carries
ShapeOf(m, blob) ==
    IF "encoding_level" \in DOMAIN m THEN <<blob.h, blob.w>>
    ELSE <<m.height, m.width>>

\* C15: a frame that draw_defect returned has a border exactly when the
\* metadata has 'defects': with a non-empty list one border of the bad
\* color and one rectangle per defect, with an empty list one border of the
\* good color and no defect rectangle, in both cases 5 pixels more on each
\* side; without the field no border and the dimensions of the image.
C15_BorderIffDefects ==
    \A i \in Threads :
       Drawn(i)
       => LET m == msg[i].metadata
              img == frame[i].img
              shape == ShapeOf(m, msg[i].blob)
              borders == OpsOf(img, "border")
          IN  IF "defects" \in DOMAIN m
              THEN /\ Cardinality(borders) = 1
                   /\ \A k \in borders :
                         img.ops[k].color = IF Len(m.defects) > 0 THEN bad_color
                                            ELSE good_color
                   /\ Cardinality(OpsOf(img, "rectangle")) - Regions(m)
                         = Len(m.defects)
                   /\ img.decoded
                      => img.h = shape[1] + 2 * 5 /\ img.w = shape[2] + 2 * 5
              ELSE /\ borders = {}
                   /\ img.decoded => img.h = shape[1] /\ img.w = shape[2]

\* a frame returned for two defects: two rectangles, the bad-color border
C15_Witness ==
    \E i \in Threads :
       /\ Drawn(i)
       /\ "defects" \in DOMAIN msg[i].metadata
       /\ Len(msg[i].metadata.defects) = 2
       /\ Cardinality(OpsOf(frame[i].img, "rectangle")) = 2
       /\ frame[i].img.h = 12
       /\ \E k \in OpsOf(frame[i].img, "border") :
             frame[i].img.ops[k].color = bad_color

\* a display_info entry that is well-formed and has a priority of 0, 1 or 2
ValidInfo(d) ==
    /\ {"priority", "info"} \subseteq DOMAIN d
    /\ d.priority.ty = "int"
    /\ d.priority.v \in {0, 1, 2}
    /\ d.info.ty = "str"

\* the texts of the display_info lines drawn on img (they start below y = 50)
InfoTexts(img) ==
    LET IsInfoLine(o) == o.op = "putText" /\ o.a[1] = 20 /\ o.a[2] > 50
        lines == SelectSeq(img.ops, IsInfoLine)
    IN  [k \in 1..Len(lines) |-> lines[k].text[1]]

\* C16: draw_defect returns for every display_info list; each entry whose
\* priority is invalid or that is malformed is skipped with one logged
\* error, and the info text of every valid entry of the list is drawn, in
\* list order.
C16_BadInfoEntryLogged ==
    [][\A i \in Threads :
         (pc[i] = "got" /\ Stepped(i) /\ "display_info" \in DOMAIN msg[i].metadata)
         => LET infos == msg[i].metadata.display_info
                valid == SelectSeq(infos, ValidInfo)
            IN  /\ pc'[i] # "dead"
                /\ errors' - errors = Len(infos) - Len(valid)
                /\ InfoTexts(frame'[i].img)
                      = [k \in 1..Len(valid) |-> valid[k].info.v]]_vars

\* the tensor entries <<region, entry>> of m whose label id the map lacks
UnknownLabels(m, map) ==
    IF "gva_meta" \notin DOMAIN m THEN {}
    ELSE {p \in UNION {{<<r, k>> : k \in 1..Len(m.gva_meta[r].tensor)} :
                         r \in 1..Len(m.gva_meta)} :
            LET l == m.gva_meta[p[1]].tensor[p[2]]
            IN  l.label_id.ty # "none" /\ Str(l.label_id.v) \notin DOMAIN map}

\* the defects of m whose type the map lacks
UnknownDefects(m, map) ==
    IF "defects" \notin DOMAIN m THEN {}
    ELSE {k \in 1..Len(m.defects) : Str(m.defects[k].type) \notin DOMAIN map}

\* the label texts drawn on img that are no label of the map
RawTexts(img, map) ==
    {k \in OpsOf(img, "putText") :
        /\ img.ops[k].a[1] # 20
        /\ \A key \in DOMAIN map : img.ops[k].text # <<map[key]>>}

\* C17: on a topic with a label map, for a well-formed raw frame with
\* gva_meta regions or defects (and no display_info), draw_defect returns,
\* draws one raw id/type text per label id or defect type the map lacks,
\* and logs exactly one error for each of them.
C17_UnknownIdDrawnAndLogged ==
    [][\A i \in Threads :
         LET m == msg[i].metadata
         IN  (/\ pc[i] = "got" /\ Stepped(i)
              /\ TopicOf(i) \in DOMAIN Labels
              /\ "gva_meta" \in DOMAIN m \/ "defects" \in DOMAIN m
              /\ "encoding_level" \notin DOMAIN m
              /\ "display_info" \notin DOMAIN m
              /\ msg[i].blob = PixelBlob(m.height * m.width * m.channels))
             => LET map == Labels[TopicOf(i)]
                    unknown == Cardinality(UnknownLabels(m, map))
                                 + Cardinality(UnknownDefects(m, map))
                IN  /\ pc'[i] # "dead"
                    /\ Cardinality(RawTexts(frame'[i].img, map)) = unknown
                    /\ errors' - errors = unknown]_vars

\* C19: the decode path depends on 'encoding_level' alone. With
\* 'encoding_level' and no 'encoding_type' draw_defect fails with KeyError.
\* Without 'encoding_level', with or without 'encoding_type', the payload is
\* reshaped as a raw height x width x channels buffer: the frame has the
\* shape the metadata gives, or the reshape fails with ValueError when the
\* payload has another length. With both keys the payload goes through
\* imdecode: the frame has the shape of the image in the container, or is
\* what a rejected payload leaves, and never fails with KeyError or
\* ValueError.
C19_EncodingLevelSelectsDecode ==
    [][\A i \in Threads :
         LET m == msg[i].metadata
             blob == msg[i].blob
             img == frame'[i].img
             border == IF "defects" \in DOMAIN m THEN 2 * 5 ELSE 0
         IN  (/\ pc[i] = "got" /\ Stepped(i)
              /\ HasMessage(msg[i])
              /\ {"gva_meta", "display_info"} \cap DOMAIN m = {})
             => IF "encoding_level" \in DOMAIN m
                THEN IF "encoding_type" \notin DOMAIN m
                     THEN died'[i] = [where |-> "draw_defect", exc |-> "KeyError"]
                     ELSE /\ died'[i].exc \notin {"KeyError", "ValueError"}
                          /\ (pc'[i] # "dead" /\ blob.kind = "encoded")
                             => /\ img.decoded
                                /\ img.h = blob.h + border
                                /\ img.w = blob.w + border
                          /\ (pc'[i] # "dead" /\ blob.kind # "encoded")
                             => ~ img.decoded
                ELSE IF blob.len = m.height * m.width * m.channels
                     THEN /\ pc'[i] # "dead"
                          /\ img.decoded
                          /\ img.h = m.height + border
                          /\ img.w = m.width + border
                          /\ img.c = m.channels
                     ELSE died'[i] = [where |-> "draw_defect", exc |-> "ValueError"]]_vars

\* a thread ended by the KeyError for a message with 'encoding_level' and
\* no 'encoding_type'
C19_Witness ==
    \E i \in Threads :
       /\ pc[i] = "dead"
       /\ died[i] = [where |-> "draw_defect", exc |-> "KeyError"]
       /\ nrecv[i] = 1
       /\ errors = 0

(* ---------------------------------------------------------------------- *)
(* Properties of a subscriber's life                                        *)
(* ---------------------------------------------------------------------- *)
\* the states of the claim's state machine
Connecting(i) == pc[i] = "connect"
Receiving(i) == pc[i] \in {"recv", "got", "save", "publish", "put"}
Stopped(i) == pc[i] = "dead"

C20_CheckThenActSafe ==
    /\ \A i \in Threads :
          /\ pc[i] = "put"
             => /\ ~ full(topicQueueDict[TopicOf(i)])
                /\ put_nowait(topicQueueDict[TopicOf(i)], frame[i]).exc = ""
          /\ died[i].exc # "queue.Full"
    /\ (mainpc = "loop" /\ dpc = "get")
       => /\ ~ empty(topicQueueDict[PolledKey])
          /\ get_nowait(topicQueueDict[PolledKey]).exc = ""

\* a thread about to put into a queue with one free slot while the display
\* loop is about to take a frame from the same queue
C20_Witness ==
    \E i \in Threads :
       /\ pc[i] = "put"
       /\ Len(Items(TopicOf(i))) = 9
       /\ mainpc = "loop"
       /\ dpc = "get"
       /\ PolledKey = TopicOf(i)

(* ---------------------------------------------------------------------- *)
(* Progress of the display loop                                             *)
(* ---------------------------------------------------------------------- *)
\* the n-th frame of thread i is in the queue of its topic
Buffered(i, n) ==
    /\ i \in Threads
    /\ \E k \in 1..Len(Items(TopicOf(i))) :
          Items(TopicOf(i))[k].sub = i /\ Items(TopicOf(i))[k].seq = n

\* C21: while main runs its display loop, every frame that is in a topic's
\* queue is eventually out of it (taken by the display loop, the only one
\* that removes frames), unless an exception ends the loop first; this
\* whatever the subscribers push in the meantime.
C21_EveryFrameDequeued ==
    \A i \in 1..2 : \A n \in 1..(MaxLive + MaxOther) :
       (mainpc = "loop" /\ Buffered(i, n))
          ~> (~ Buffered(i, n) \/ mainpc = "exited")

\* the first frame of a topic has been taken and shown while later frames
\* of that topic and a frame of another topic were waiting
C21_Witness ==
    /\ mainpc = "loop"
    /\ \E t \in Topics :
          /\ pops[t] = 1
          /\ imageDict[t].seq = 1
          /\ Len(Items(t)) > 0
          /\ \E u \in Topics \ {t} : Len(Items(u)) > 0

====
